---- MODULE Spec2Model ----
(***************************************************************************)
(* Model of the chat server in src/config/config.js: the SQLite store      *)
(* (tables chat_sessions and messages), the store functions built on it,   *)
(* and the Express handlers, one request per slot, with the points where   *)
(* a handler awaits as the points where other requests may run.            *)
(*                                                                         *)
(* Texts are sequences of characters (one-character strings); a fixed      *)
(* literal of the source is written out character by character.            *)
(***************************************************************************)
EXTENDS Integers, Sequences, FiniteSets, TLC

VARIABLES
    chat_sessions,  \* table chat_sessions: a set of rows [id, title, created_at, updated_at]
    messages,       \* table messages: the rows [session_id, role, content, timestamp] in rowid order
    now,            \* the store's clock, in seconds (CURRENT_TIMESTAMP, datetime('now'))
    generated,      \* the ids uuidv4() has returned so far
    remaining,      \* the number of requests the clients have yet to send
    req             \* per request slot: the handler's position and locals, and its response

vars == <<chat_sessions, messages, now, generated, remaining, req>>

\* ------------------------------------------------------------------ bounds

MaxRequests == 2    \* requests received in one run
MaxTime == 1        \* the clock runs 0..MaxTime
MaxHist == 17       \* longest stored history a run of SpecSend starts from
SendRequests == 1   \* requests received in one run of SpecSend
ChatRequests == 3   \* requests received in one run of SpecChat
RaceRequests == 2   \* requests received in one run of SpecRace

Slots == {"r1", "r2"}
Uuids == {"s1"}                 \* ids uuidv4() can return
ForeignIds == {"u1"}            \* ids a client can send that uuidv4() never returns

\* ------------------------------------------------------------------ texts

Rep(c, n) == [i \in 1..n |-> c]

TitleMax == 30
Ellipsis == <<".", ".", ".">>
WindowSize == 15

Hi == <<"h", "i">>
Text30 == Rep("a", TitleMax)
Text31 == Rep("a", TitleMax) \o <<"b">>
Empty == <<>>

\* request bodies of POST /message: {message: text}, and a body without the field
BodiesOf(texts) == {[message |-> t] : t \in texts} \cup {[other |-> Hi]}
Bodies == BodiesOf({Hi, Empty})
BoundaryBodies == BodiesOf({Hi, Text30, Text31, Empty})

Replies == {<<"o", "k">>}
TokenCounts == {5}

NewChatTitle == <<"N", "e", "w", " ", "C", "h", "a", "t">>
Untitled == <<"U", "n", "t", "i", "t", "l", "e", "d">>

\* hay.includes(needle)
Includes(hay, needle) ==
    \E i \in 0..(Len(hay) - Len(needle)) :
        \A j \in 1..Len(needle) : hay[i + j] = needle[j]

RateLimitWord == <<"r", "a", "t", "e", " ", "l", "i", "m", "i", "t">>
QuotaWord == <<"q", "u", "o", "t", "a">>

\* texts of the errors the gateway client throws
GatewayErrors ==
    { <<"4", "2", "9", " ">> \o RateLimitWord,
      QuotaWord \o <<" ", "e", "x", "c">>,
      <<"R", "a", "t", "e", " ", "L", "i", "m", "i", "t">>,
      <<"5", "0", "3">> }

\* text of the error sqlite3 passes to a statement's callback
SqliteError == <<"S", "Q", "L", "I", "T", "E", "_", "I", "O", "E", "R", "R">>

\* ------------------------------------------------------------------ store reads

HasRow(s) == \E row \in chat_sessions : row.id = s
RowOf(s) == CHOOSE row \in chat_sessions : row.id = s

\* WHERE session_id = ?  (the table scan, in rowid order)
RowsOf(s) == SelectSeq(messages, LAMBDA m : m.session_id = s)

RemoveAt(q, i) == SubSeq(q, 1, i - 1) \o SubSeq(q, i + 1, Len(q))

\* ORDER BY timestamp ASC: every order of the rows with timestamps ascending;
\* the statement names no second key, so rows of equal timestamp come in any order.
RECURSIVE OrderByTimestamp(_)
OrderByTimestamp(rows) ==
    IF rows = <<>> THEN {<<>>}
    ELSE LET firsts == {i \in 1..Len(rows) :
                          \A j \in 1..Len(rows) : rows[i].timestamp <= rows[j].timestamp}
         IN  UNION {{<<rows[i]>> \o rest : rest \in OrderByTimestamp(RemoveAt(rows, i))}
                    : i \in firsts}

\* SELECT role, content
RoleContent(rows) == [i \in 1..Len(rows) |-> [role |-> rows[i].role, content |-> rows[i].content]]

\* the results the SELECT of getConversationHistory can deliver
getConversationHistory(s) == {RoleContent(o) : o \in OrderByTimestamp(RowsOf(s))}

\* ORDER BY updated_at DESC over the rows of chat_sessions
RECURSIVE OrderByUpdatedDesc(_)
OrderByUpdatedDesc(rows) ==
    IF rows = {} THEN {<<>>}
    ELSE LET firsts == {x \in rows : \A y \in rows : x.updated_at >= y.updated_at}
         IN  UNION {{<<x>> \o rest : rest \in OrderByUpdatedDesc(rows \ {x})} : x \in firsts}

getChatSessions == OrderByUpdatedDesc(chat_sessions)

\* ------------------------------------------------------------------ store writes

\* DeriveTitle with the comparison off by one (>= for >)
DeriveTitleFrom30(content) ==
    IF Len(content) >= TitleMax THEN SubSeq(content, 1, TitleMax) \o Ellipsis ELSE content

\* content.length > 30 ? content.substring(0, 30) + '...' : content
DeriveTitle(content) ==
    IF Len(content) > TitleMax THEN SubSeq(content, 1, TitleMax) \o Ellipsis ELSE content

\* INSERT OR REPLACE INTO chat_sessions (id, title, updated_at): the row of that id
\* is replaced whole, created_at taking its default
ReplaceSession(rows, s, title, t) ==
    {row \in rows : row.id # s}
        \cup {[id |-> s, title |-> title, created_at |-> t, updated_at |-> t]}

\* saveMessage without the UPDATE of its else branch
TouchSessionSkipped(rows, s, t) == rows

\* the UPDATE of saveMessage without its WHERE clause
TouchEverySession(rows, s, t) == {[row EXCEPT !.updated_at = t] : row \in rows}

\* UPDATE chat_sessions SET updated_at = datetime('now') WHERE id = ?
TouchSession(rows, s, t) ==
    {IF row.id = s THEN [row EXCEPT !.updated_at = t] ELSE row : row \in rows}

\* the first statement of saveMessage
SessionWrite(rows, s, content, isFirstMessage, t) ==
    IF isFirstMessage THEN ReplaceSession(rows, s, DeriveTitle(content), t)
    ELSE TouchSession(rows, s, t)

\* INSERT INTO messages (session_id, role, content)
InsertMessage(rows, s, role, content, t) ==
    Append(rows, [session_id |-> s, role |-> role, content |-> content, timestamp |-> t])

\* deleteChatSession without its first statement
DeleteMessagesSkipped(rows, s) == rows

\* DELETE FROM messages WHERE session_id = ?
DeleteMessages(rows, s) == SelectSeq(rows, LAMBDA m : m.session_id # s)

\* DELETE FROM chat_sessions WHERE id = ?
DeleteSessionRow(rows, s) == {row \in rows : row.id # s}

\* ------------------------------------------------------------------ history window

\* content of the system message, line 208
SystemContent == <<
    "Y", "o", "u", " ", "a", "r", "e", " ", "a", " ", "h", "e",
    "l", "p", "f", "u", "l", ",", " ", "d", "e", "t", "a", "i",
    "l", "e", "d", ",", " ", "a", "n", "d", " ", "e", "n", "t",
    "h", "u", "s", "i", "a", "s", "t", "i", "c", " ", "A", "I",
    " ", "a", "s", "s", "i", "s", "t", "a", "n", "t", ".", " ",
    "P", "r", "o", "v", "i", "d", "e", " ", "c", "o", "m", "p",
    "r", "e", "h", "e", "n", "s", "i", "v", "e", " ", "a", "n",
    "d", " ", "t", "h", "o", "r", "o", "u", "g", "h", " ", "r",
    "e", "s", "p", "o", "n", "s", "e", "s", " ", "w", "h", "i",
    "l", "e", " ", "m", "a", "i", "n", "t", "a", "i", "n", "i",
    "n", "g", " ", "n", "a", "t", "u", "r", "a", "l", " ", "c",
    "o", "n", "v", "e", "r", "s", "a", "t", "i", "o", "n", " ",
    "f", "l", "o", "w", "." >>

\* history.slice(0, 15) for history.slice(-15)
FirstN(h, n) == IF Len(h) <= n THEN h ELSE SubSeq(h, 1, n)

\* history.slice(-15)
LastN(h, n) == IF Len(h) <= n THEN h ELSE SubSeq(h, Len(h) - n + 1, Len(h))

\* the list passed to groq.chat.completions.create
BuildMessages(history) ==
    <<[role |-> "system", content |-> SystemContent]>>
        \o [i \in 1..Len(LastN(history, WindowSize)) |->
              [role |-> LastN(history, WindowSize)[i].role,
               content |-> LastN(history, WindowSize)[i].content]]

\* ------------------------------------------------------------------ export text

ExportTitleLine == <<
    "A", "I", " ", "C", "h", "a", "t", " ", "E", "x", "p", "o",
    "r", "t", "\n" >>
TitleLabel == <<
    "T", "i", "t", "l", "e", ":", " " >>
ExportedLabel == <<
    "E", "x", "p", "o", "r", "t", "e", "d", ":", " " >>
Separator == Rep("=", 40) \o <<"\n", "\n">>
You == <<"Y", "o", "u">>
AIAssistant == <<
    "A", "I", " ", "A", "s", "s", "i", "s", "t", "a", "n", "t" >>

\* new Date().toLocaleString(), one token
DateText(t) == <<ToString(t)>>

\* msg.role === 'user' ? 'You' : 'AI Assistant'
DisplayRole(role) == IF role = "user" THEN You ELSE AIAssistant

\* `${role}: ${msg.content}\n\n`
ExportEntry(msg) == DisplayRole(msg.role) \o <<":", " ">> \o msg.content \o <<"\n", "\n">>

RECURSIVE ExportEntries(_)
ExportEntries(msgs) ==
    IF msgs = <<>> THEN <<>> ELSE ExportEntry(Head(msgs)) \o ExportEntries(Tail(msgs))

\* session?.title || 'Untitled', with session the row db.get delivered (or none)
ExportTitle(found, row) == IF found /\ row.title # <<>> THEN row.title ELSE Untitled

ExportText(title, msgs, t) ==
    ExportTitleLine \o TitleLabel \o title \o <<"\n">>
        \o ExportedLabel \o DateText(t) \o <<"\n">> \o Separator \o ExportEntries(msgs)

\* ------------------------------------------------------------------ error mapping

\* the catch block of POST /message: the status for an error with this message
CatchStatus(msg) ==
    IF Includes(msg, RateLimitWord) THEN 429
    ELSE IF Includes(msg, QuotaWord) THEN 429
    ELSE 500

\* ------------------------------------------------------------------ requests

\* a free slot; error is the message of the error a catch block caught, and
\* cause tells where it came from (validation, storage, gateway), or how the
\* handler was lost with the process (storage, stop, peer)
Idle == [kind |-> "none", pc |-> "idle", sid |-> "", message |-> <<>>,
         isFirstMessage |-> FALSE, history |-> <<>>, messages |-> <<>>,
         status |-> 0, resp |-> <<>>, error |-> <<>>, cause |-> ""]

\* ids a client can address: those the server handed out, and its own inventions
Targets == generated \cup ForeignIds

\* res.json / res.status(n).json / res.send: the handler is over
Respond(rq, status, resp, cause) ==
    [rq EXCEPT !.pc = "done", !.status = status, !.resp = resp, !.cause = cause]

\* the process ends: every handler that was under way never answers
Lost(rq, cause) ==
    IF rq.pc \in {"idle", "done", "lost"} THEN rq ELSE [rq EXCEPT !.pc = "lost", !.cause = cause]

ProcessEndsWith(r, rq, cause) ==
    req' = [x \in Slots |-> IF x = r THEN Lost(rq, cause) ELSE Lost(req[x], "peer")]

ProcessEnds(r, cause) == ProcessEndsWith(r, req[r], cause)

\* a request takes the first free slot
Receive(r) ==
    /\ req[r].pc = "idle"
    /\ r = "r2" => req["r1"].pc # "idle"
    /\ remaining > 0
    /\ remaining' = remaining - 1

\* the catch block of POST /message
CatchResponse(rq, msg, cause) ==
    Respond([rq EXCEPT !.error = msg], CatchStatus(msg),
            IF Includes(msg, RateLimitWord)
                THEN [error |-> "Rate limit exceeded. Please wait a moment and try again."]
            ELSE IF Includes(msg, QuotaWord)
                THEN [error |-> "API quota exceeded. Please check your Groq account."]
            ELSE [error |-> "AI service error: ", message |-> msg],
            cause)

\* what a run of saveMessage's two statements can come to:
\*   ok     both statements run
\*   fail1  the first fails; it has no callback, so sqlite3 emits an unhandled
\*          'error' event and the process ends before the second runs
\*   fail2  the first runs, the second fails and its callback rejects
\*   stop   the process is stopped between the two
PairOutcomes == {"ok", "fail1", "fail2", "stop"}

saveMessage(s, role, content, isFirstMessage, f) ==
    /\ chat_sessions' = IF f = "fail1" THEN chat_sessions
                        ELSE SessionWrite(chat_sessions, s, content, isFirstMessage, now)
    /\ messages' = IF f = "ok" THEN InsertMessage(messages, s, role, content, now)
                   ELSE messages

deleteChatSession(s, f) ==
    /\ messages' = IF f = "fail1" THEN messages ELSE DeleteMessages(messages, s)
    /\ chat_sessions' = IF f = "ok" THEN DeleteSessionRow(chat_sessions, s)
                        ELSE chat_sessions

\* message === undefined for !message
NoMessageField(body) == "message" \notin DOMAIN body

\* !message
NoMessage(body) == ("message" \notin DOMAIN body) \/ body.message = <<>>

\* POST /api/chats/:sessionId/message, lines 181-194: validation and the first read
PostMessage(r, s, body, f) ==
    /\ Receive(r)
    /\ s \in Targets
    /\ f \in {"ok", "fail"}
    /\ IF NoMessage(body)
         THEN /\ f = "ok"
              /\ req' = [req EXCEPT ![r] =
                           Respond([Idle EXCEPT !.kind = "message", !.sid = s], 400,
                                   [error |-> "Message is required"], "validation")]
         ELSE IF f = "fail"
         THEN req' = [req EXCEPT ![r] =
                        CatchResponse([Idle EXCEPT !.kind = "message", !.sid = s,
                                                   !.message = body.message],
                                      SqliteError, "storage")]
         ELSE \E existingMessages \in getConversationHistory(s) :
                req' = [req EXCEPT ![r] =
                          [Idle EXCEPT !.kind = "message", !.pc = "save", !.sid = s,
                                       !.message = body.message,
                                       !.isFirstMessage = (Len(existingMessages) = 0)]]
    /\ UNCHANGED <<chat_sessions, messages, now, generated>>

\* line 197: await saveMessage(sessionId, 'user', message, isFirstMessage)
SaveUser(r, f) ==
    /\ req[r].pc = "save"
    /\ f \in PairOutcomes
    /\ saveMessage(req[r].sid, "user", req[r].message, req[r].isFirstMessage, f)
    /\ CASE f = "ok" -> req' = [req EXCEPT ![r].pc = "reread"]
         [] f = "fail2" -> req' = [req EXCEPT ![r] = CatchResponse(req[r], SqliteError, "storage")]
         [] f = "fail1" -> ProcessEnds(r, "storage")
         [] f = "stop" -> ProcessEnds(r, "stop")
    /\ UNCHANGED <<now, generated, remaining>>

\* lines 200-216: the second read, the window, and the call of the gateway
Reread(r, f) ==
    /\ req[r].pc = "reread"
    /\ f \in {"ok", "fail"}
    /\ IF f = "fail"
         THEN req' = [req EXCEPT ![r] = CatchResponse(req[r], SqliteError, "storage")]
         ELSE \E history \in getConversationHistory(req[r].sid) :
                req' = [req EXCEPT ![r].pc = "gateway", ![r].history = history,
                                   ![r].messages = BuildMessages(history)]
    /\ UNCHANGED <<chat_sessions, messages, now, generated, remaining>>

\* lines 227-240: the gateway answered; the assistant message is saved, then res.json
GatewayReply(r, aiResponse, tokensUsed, f) ==
    /\ req[r].pc = "gateway"
    /\ f \in PairOutcomes
    /\ saveMessage(req[r].sid, "assistant", aiResponse, FALSE, f)
    /\ CASE f = "ok" ->
              req' = [req EXCEPT ![r] =
                        Respond(req[r], 200,
                                [response |-> aiResponse, sessionId |-> req[r].sid,
                                 tokensUsed |-> tokensUsed], "")]
         [] f = "fail2" -> req' = [req EXCEPT ![r] = CatchResponse(req[r], SqliteError, "storage")]
         [] f = "fail1" -> ProcessEnds(r, "storage")
         [] f = "stop" -> ProcessEnds(r, "stop")
    /\ UNCHANGED <<now, generated, remaining>>

\* a catch block that takes the user message back before it answers
GatewayFailureUndoingSave(r, msg) ==
    /\ req[r].pc = "gateway"
    /\ req' = [req EXCEPT ![r] = CatchResponse(req[r], msg, "gateway")]
    /\ messages' = SelectSeq(messages, LAMBDA m :
                       ~(m.session_id = req[r].sid /\ m.role = "user"
                           /\ m.content = req[r].message))
    /\ UNCHANGED <<chat_sessions, now, generated, remaining>>

\* lines 242-259: the gateway call threw
GatewayFailure(r, msg) ==
    /\ req[r].pc = "gateway"
    /\ req' = [req EXCEPT ![r] = CatchResponse(req[r], msg, "gateway")]
    /\ UNCHANGED <<chat_sessions, messages, now, generated, remaining>>

\* GET /api/chats, lines 148-156
ListChats(r, f) ==
    /\ Receive(r)
    /\ f \in {"ok", "fail"}
    /\ IF f = "fail"
         THEN req' = [req EXCEPT ![r] =
                        Respond([Idle EXCEPT !.kind = "list"], 500,
                                [error |-> "Failed to load chats"], "storage")]
         ELSE \E sessions \in getChatSessions :
                req' = [req EXCEPT ![r] =
                          Respond([Idle EXCEPT !.kind = "list"], 200,
                                  [sessions |-> sessions], "")]
    /\ UNCHANGED <<chat_sessions, messages, now, generated>>

\* GET /api/chats/:sessionId, lines 158-167
GetChat(r, s, f) ==
    /\ Receive(r)
    /\ s \in Targets
    /\ f \in {"ok", "fail"}
    /\ IF f = "fail"
         THEN req' = [req EXCEPT ![r] =
                        Respond([Idle EXCEPT !.kind = "get", !.sid = s], 500,
                                [error |-> "Failed to load chat"], "storage")]
         ELSE \E msgs \in getConversationHistory(s) :
                req' = [req EXCEPT ![r] =
                          Respond([Idle EXCEPT !.kind = "get", !.sid = s], 200,
                                  [messages |-> msgs], "")]
    /\ UNCHANGED <<chat_sessions, messages, now, generated>>

\* POST /api/chats/new, lines 170-178, with createNewChatSession, lines 115-129
NewChat(r, f) ==
    /\ Receive(r)
    /\ f \in {"ok", "fail"}
    /\ \E sessionId \in Uuids \ generated :
         /\ generated' = generated \cup {sessionId}
         /\ IF f = "fail"
              THEN /\ chat_sessions' = chat_sessions
                   /\ req' = [req EXCEPT ![r] =
                                Respond([Idle EXCEPT !.kind = "new"], 500,
                                        [error |-> "Failed to create chat"], "storage")]
              ELSE /\ chat_sessions' = chat_sessions \cup
                         {[id |-> sessionId, title |-> NewChatTitle,
                           created_at |-> now, updated_at |-> now]}
                   /\ req' = [req EXCEPT ![r] =
                                Respond([Idle EXCEPT !.kind = "new", !.sid = sessionId], 200,
                                        [sessionId |-> sessionId, title |-> NewChatTitle], "")]
    /\ UNCHANGED <<messages, now>>

\* DELETE /api/chats/:sessionId, lines 262-271, with deleteChatSession, lines 132-142
DeleteChat(r, s, f) ==
    /\ Receive(r)
    /\ s \in Targets
    /\ f \in PairOutcomes
    /\ deleteChatSession(s, f)
    /\ LET rq == [Idle EXCEPT !.kind = "delete", !.pc = "run", !.sid = s]
       IN  CASE f = "ok" ->
                  req' = [req EXCEPT ![r] =
                            Respond(rq, 200, [message |-> "Chat deleted successfully"], "")]
             [] f = "fail2" ->
                  req' = [req EXCEPT ![r] =
                            Respond(rq, 500, [error |-> "Failed to delete chat"], "storage")]
             [] f = "fail1" -> ProcessEndsWith(r, rq, "storage")
             [] f = "stop" -> ProcessEndsWith(r, rq, "stop")
    /\ UNCHANGED <<now, generated>>

\* GET /api/chats/:sessionId/export, lines 274-277: the history read
ExportRead(r, s, f) ==
    /\ Receive(r)
    /\ s \in Targets
    /\ f \in {"ok", "fail"}
    /\ IF f = "fail"
         THEN req' = [req EXCEPT ![r] =
                        Respond([Idle EXCEPT !.kind = "export", !.sid = s], 500,
                                [error |-> "Export failed"], "storage")]
         ELSE \E msgs \in getConversationHistory(s) :
                req' = [req EXCEPT ![r] =
                          [Idle EXCEPT !.kind = "export", !.pc = "title", !.sid = s,
                                       !.history = msgs]]
    /\ UNCHANGED <<chat_sessions, messages, now, generated>>

\* lines 278-296: the title lookup, whose callback drops err, and the text
ExportSend(r, f) ==
    /\ req[r].pc = "title"
    /\ f \in {"ok", "fail"}
    /\ LET found == f = "ok" /\ HasRow(req[r].sid)
           title == IF found THEN ExportTitle(TRUE, RowOf(req[r].sid))
                    ELSE ExportTitle(FALSE, Idle)
       IN  req' = [req EXCEPT ![r] =
                     Respond(req[r], 200,
                             [text |-> ExportText(title, req[r].history, now),
                              filename |-> req[r].sid],
                             IF f = "fail" THEN "storage" ELSE "")]
    /\ UNCHANGED <<chat_sessions, messages, now, generated, remaining>>

\* the client has its answer (or the process is gone): the slot is free again
Retire(r) ==
    /\ req[r].pc \in {"done", "lost"}
    /\ req' = [req EXCEPT ![r] = Idle]
    /\ UNCHANGED <<chat_sessions, messages, now, generated, remaining>>

\* a second passes
Tick ==
    /\ now < MaxTime
    /\ now' = now + 1
    /\ UNCHANGED <<chat_sessions, messages, generated, remaining, req>>

\* ------------------------------------------------------------------ specifications

\* lines 23-48: the tables exist and are empty; nothing has been received
Init ==
    /\ chat_sessions = {}
    /\ messages = <<>>
    /\ now = 0
    /\ generated = {}
    /\ remaining = MaxRequests
    /\ req = [r \in Slots |-> Idle]

Next ==
    \/ \E r \in Slots, s \in Uuids \cup ForeignIds, body \in Bodies, f \in {"ok", "fail"} :
         PostMessage(r, s, body, f)
    \/ \E r \in Slots, f \in PairOutcomes : SaveUser(r, f)
    \/ \E r \in Slots, f \in {"ok", "fail"} : Reread(r, f)
    \/ \E r \in Slots, a \in Replies, n \in TokenCounts, f \in PairOutcomes :
         GatewayReply(r, a, n, f)
    \/ \E r \in Slots, e \in GatewayErrors : GatewayFailure(r, e)
    \/ \E r \in Slots, f \in {"ok", "fail"} : ListChats(r, f)
    \/ \E r \in Slots, s \in Uuids \cup ForeignIds, f \in {"ok", "fail"} : GetChat(r, s, f)
    \/ \E r \in Slots, f \in {"ok", "fail"} : NewChat(r, f)
    \/ \E r \in Slots, s \in Uuids \cup ForeignIds, f \in PairOutcomes : DeleteChat(r, s, f)
    \/ \E r \in Slots, s \in Uuids \cup ForeignIds, f \in {"ok", "fail"} : ExportRead(r, s, f)
    \/ \E r \in Slots, f \in {"ok", "fail"} : ExportSend(r, f)
    \/ \E r \in Slots : Retire(r)
    \/ Tick

Spec == Init /\ [][Next]_vars

\* A server that has been up for a while: session s1 holds n messages, written one
\* a second by alternating user and assistant turns, and SendRequests requests are
\* still to come.
StoredMessage(i) ==
    [session_id |-> "s1", role |-> IF i % 2 = 1 THEN "user" ELSE "assistant",
     content |-> Rep("a", i), timestamp |-> i]

InitSend ==
    \E n \in 0..MaxHist :
        /\ messages = [i \in 1..n |-> StoredMessage(i)]
        /\ chat_sessions =
             {[id |-> "s1",
               title |-> IF n = 0 THEN NewChatTitle ELSE DeriveTitle(StoredMessage(1).content),
               created_at |-> IF n = 0 THEN 0 ELSE 1,
               updated_at |-> n]}
        /\ now = n + 1
        /\ generated = {"s1"}
        /\ remaining = SendRequests
        /\ req = [r \in Slots |-> Idle]

\* clients that only send chat turns, with texts around the title boundary
NextSend ==
    \/ \E r \in Slots, s \in Uuids \cup ForeignIds, body \in BoundaryBodies, f \in {"ok", "fail"} :
         PostMessage(r, s, body, f)
    \/ \E r \in Slots, f \in PairOutcomes : SaveUser(r, f)
    \/ \E r \in Slots, f \in {"ok", "fail"} : Reread(r, f)
    \/ \E r \in Slots, a \in Replies, n \in TokenCounts, f \in PairOutcomes :
         GatewayReply(r, a, n, f)
    \/ \E r \in Slots, e \in GatewayErrors : GatewayFailure(r, e)
    \/ \E r \in Slots : Retire(r)

SpecSend == InitSend /\ [][NextSend]_vars

\* clients that only send chat turns and delete chats, ChatRequests requests in all
InitChat ==
    /\ chat_sessions = {}
    /\ messages = <<>>
    /\ now = 0
    /\ generated = {}
    /\ remaining = ChatRequests
    /\ req = [r \in Slots |-> Idle]

NextChat ==
    \/ \E r \in Slots, s \in Uuids \cup ForeignIds, body \in Bodies, f \in {"ok", "fail"} :
         PostMessage(r, s, body, f)
    \/ \E r \in Slots, f \in PairOutcomes : SaveUser(r, f)
    \/ \E r \in Slots, f \in {"ok", "fail"} : Reread(r, f)
    \/ \E r \in Slots, a \in Replies, n \in TokenCounts, f \in PairOutcomes :
         GatewayReply(r, a, n, f)
    \/ \E r \in Slots, e \in GatewayErrors : GatewayFailure(r, e)
    \/ \E r \in Slots, s \in Uuids \cup ForeignIds, f \in PairOutcomes : DeleteChat(r, s, f)
    \/ \E r \in Slots : Retire(r)
    \/ Tick

SpecChat == InitChat /\ [][NextChat]_vars

\* clients that only send chat turns, RaceRequests of them, to an empty store
InitRace ==
    /\ chat_sessions = {}
    /\ messages = <<>>
    /\ now = 0
    /\ generated = {}
    /\ remaining = RaceRequests
    /\ req = [r \in Slots |-> Idle]

SpecRace == InitRace /\ [][NextSend]_vars

\* ------------------------------------------------------------------ claims

AllIds == Uuids \cup ForeignIds

\* C1: for every session, getConversationHistory returns exactly the messages
\* appended to it, in the order they were appended, also when several of them
\* carry the same stored timestamp.
C1_HistoryInAppendOrder ==
    \A s \in AllIds : getConversationHistory(s) = {RoleContent(RowsOf(s))}

\* C2: createSession returned s (its answer is still in its slot), one chat turn
\* on s completed with a gateway reply, and these were the only two requests:
\* the answer carries {response, sessionId = s, tokensUsed} and a GET of s shows
\* exactly the user message and then the assistant message.
C2_TurnShowsUserThenAssistant ==
    \A r \in Slots, c \in Slots :
        ( /\ req[c].kind = "new" /\ req[c].pc = "done" /\ req[c].status = 200
          /\ req[r].kind = "message" /\ req[r].pc = "done" /\ req[r].status = 200
          /\ req[r].sid = req[c].resp.sessionId
          /\ remaining = MaxRequests - 2 )
        => /\ DOMAIN req[r].resp = {"response", "sessionId", "tokensUsed"}
           /\ req[r].resp.sessionId = req[r].sid
           /\ req[r].resp.response \in Replies
           /\ req[r].resp.tokensUsed \in TokenCounts
           /\ getConversationHistory(req[r].sid) =
                {<<[role |-> "user", content |-> req[r].message],
                   [role |-> "assistant", content |-> req[r].resp.response]>>}

\* C3: the step in which a chat turn's gateway call fails leaves the store as it
\* is: the user message the request appended stays, no assistant message is
\* appended and nothing is deleted.
C3_GatewayFailureKeepsStore ==
    [][\A r \in Slots :
          (req[r].pc = "gateway" /\ req'[r].pc = "done" /\ req'[r].cause = "gateway")
          => /\ messages' = messages
             /\ chat_sessions' = chat_sessions
             /\ req'[r].status \in {429, 500}]_vars

\* C3's case: a chat turn failed at the gateway and the session holds two copies
\* of its user message (the text was sent, failed, and was sent again).
C3_Witness ==
    \E r \in Slots :
        /\ req[r].kind = "message" /\ req[r].pc = "done" /\ req[r].cause = "gateway"
        /\ Cardinality({i \in 1..Len(RowsOf(req[r].sid)) :
                          /\ RowsOf(req[r].sid)[i].role = "user"
                          /\ RowsOf(req[r].sid)[i].content = req[r].message}) = 2
        /\ \A i \in 1..Len(RowsOf(req[r].sid)) : RowsOf(req[r].sid)[i].role = "user"

\* C4: a chat turn whose message is missing or empty is answered 400 in the step
\* that receives it, and that step changes neither table.
C4_EmptyMessageRejected ==
    [][\A r \in Slots :
          (req[r].pc = "idle" /\ req'[r].kind = "message" /\ req'[r].message = <<>>)
          => /\ req'[r].pc = "done"
             /\ req'[r].status = 400
             /\ messages' = messages
             /\ chat_sessions' = chat_sessions]_vars

\* C4's case: the request was answered 400 while its session holds messages.
C4_Witness ==
    \E r \in Slots :
        /\ req[r].kind = "message" /\ req[r].pc = "done" /\ req[r].status = 400
        /\ Len(RowsOf(req[r].sid)) > 0

\* C5: when an append with isFirstMessage = true completes, the session's title is
\* the text itself if it has at most 30 characters, else its first 30 characters
\* followed by "...".
C5_TitleFromFirstMessage ==
    [][\A r \in Slots :
          (req[r].pc = "save" /\ req[r].isFirstMessage /\ req'[r].pc = "reread")
          => \E row \in chat_sessions' :
                /\ row.id = req[r].sid
                /\ row.title = IF Len(req[r].message) <= 30 THEN req[r].message
                               ELSE SubSeq(req[r].message, 1, 30) \o <<".", ".", ".">>]_vars

\* C5's case: a first append of a 31-character text completed and the title is
\* its first 30 characters plus "...".
C5_Witness ==
    \E r \in Slots :
        /\ req[r].pc = "reread" /\ req[r].isFirstMessage
        /\ Len(req[r].message) = 31
        /\ HasRow(req[r].sid)
        /\ Len(RowOf(req[r].sid).title) = 33

\* C6: right after deleteSession(s) completed, getHistory(s) returns the empty
\* sequence and listSessions does not contain s.
C6_DeletedSessionIsGone ==
    [][\A r \in Slots, s \in AllIds :
          (req[r].pc = "idle" /\ req'[r].kind = "delete" /\ req'[r].pc = "done"
             /\ req'[r].status = 200 /\ req'[r].sid = s)
          => /\ getConversationHistory(s)' = {<<>>}
             /\ \A sessions \in getChatSessions' :
                  \A i \in 1..Len(sessions) : sessions[i].id # s]_vars

\* C6's case: a chat turn on s completed (its answer is still in its slot), then
\* a delete of s completed, and s has neither messages nor a row.
C6_Witness ==
    \E r \in Slots, m \in Slots :
        /\ req[r].kind = "delete" /\ req[r].pc = "done" /\ req[r].status = 200
        /\ req[m].kind = "message" /\ req[m].status = 200 /\ req[m].sid = req[r].sid
        /\ RowsOf(req[r].sid) = <<>>
        /\ ~HasRow(req[r].sid)

\* C7: a delete of an id that has no session row, run without a storage fault,
\* is answered 200 and changes neither table.
C7_DeleteUnknownIsNoOp ==
    [][\A r \in Slots, s \in AllIds :
          (req[r].pc = "idle" /\ req'[r].kind = "delete" /\ req'[r].sid = s
             /\ req'[r].cause = "" /\ ~HasRow(s))
          => /\ req'[r].pc = "done"
             /\ req'[r].status = 200
             /\ messages' = messages
             /\ chat_sessions' = chat_sessions]_vars

Min(a, b) == IF a <= b THEN a ELSE b

\* C8: the list a chat turn passes to the gateway has min(n, 15) + 1 elements for
\* a history of n messages: first the system message with the fixed text, then
\* the last min(n, 15) messages of the history, in order and unchanged, none of
\* them a system message.
C8_WindowOfHistory ==
    \A r \in Slots :
        req[r].pc = "gateway" =>
            LET h == req[r].history
                m == req[r].messages
                k == Min(Len(h), 15)
            IN  /\ Len(m) = k + 1
                /\ m[1] = [role |-> "system", content |-> SystemContent]
                /\ \A i \in 1..k : m[i + 1] = h[Len(h) - k + i]
                /\ \A i \in 2..Len(m) : m[i].role # "system"

\* C8's case: the gateway is called with a history of more than 15 messages.
C8_Witness ==
    \E r \in Slots :
        /\ req[r].pc = "gateway"
        /\ Len(req[r].history) > 15
        /\ Len(req[r].messages) = 16

\* C9: every chat turn the handler itself brings to an end is answered with one
\* of 200, 400, 429, 500: 400 exactly when the message is missing or empty, 429
\* when the gateway failed with a rate-limit or quota text, 500 for every other
\* failure, a storage fault included, and 200 only without any failure.
C9_StatusOfChatTurn ==
    \A r \in Slots :
        (req[r].kind = "message" /\ req[r].pc \in {"done", "lost"}
           /\ req[r].cause \notin {"peer", "stop"})
        => /\ req[r].status \in {200, 400, 429, 500}
           /\ (req[r].status = 400) <=> (req[r].message = <<>>)
           /\ req[r].cause = "gateway" =>
                req[r].status = IF Includes(req[r].error, RateLimitWord)
                                     \/ Includes(req[r].error, QuotaWord)
                                  THEN 429 ELSE 500
           /\ req[r].cause = "storage" => req[r].status = 500
           /\ req[r].status = 200 => req[r].cause = ""

C10_Role(role) == IF role = "user" THEN <<"Y", "o", "u">> ELSE AIAssistant

RECURSIVE C10_Entries(_)
C10_Entries(h) ==
    IF h = <<>> THEN <<>>
    ELSE C10_Role(h[1].role) \o <<":", " ">> \o h[1].content \o <<"\n", "\n">>
            \o C10_Entries(Tail(h))

\* C10: the export of s is the header (title line, "Title: " with the title of s,
\* or Untitled when s has no row or no title, the export time, the separator)
\* followed by one entry "<DisplayRole>: <content>" and a blank line per message
\* of the history read, in order, DisplayRole being You for user and AI Assistant
\* otherwise.
C10_ExportIsHeaderThenEntries ==
    [][\A r \in Slots, s \in AllIds :
          (req[r].pc = "title" /\ req'[r].pc = "done" /\ req[r].sid = s)
          => req'[r].resp.text =
                ExportTitleLine
                  \o TitleLabel
                  \o (IF HasRow(s) /\ RowOf(s).title # <<>> THEN RowOf(s).title ELSE Untitled)
                  \o <<"\n">> \o ExportedLabel \o DateText(now) \o <<"\n">> \o Separator
                  \o C10_Entries(req[r].history)]_vars

\* C11: saveMessage is atomic over its two statements: a step in which a handler
\* runs it either makes both writes (the session write and the message insert),
\* or makes neither and the request is answered with a failure.
C11_AppendIsAtomic ==
    [][\A r \in Slots :
          /\ (req[r].pc = "save" /\ req'[r].pc # "save" /\ req'[r].cause # "peer")
             => \/ /\ chat_sessions' = SessionWrite(chat_sessions, req[r].sid, req[r].message,
                                                    req[r].isFirstMessage, now)
                   /\ messages' = InsertMessage(messages, req[r].sid, "user",
                                                req[r].message, now)
                   /\ req'[r].pc = "reread"
                \/ /\ chat_sessions' = chat_sessions
                   /\ messages' = messages
                   /\ req'[r].pc = "done" /\ req'[r].status = 500
          /\ (req[r].pc = "gateway" /\ req'[r].pc # "gateway"
                /\ req'[r].cause \notin {"peer", "gateway"})
             => \/ /\ chat_sessions' = TouchSession(chat_sessions, req[r].sid, now)
                   /\ \E a \in Replies :
                        messages' = InsertMessage(messages, req[r].sid, "assistant", a, now)
                   /\ req'[r].pc = "done" /\ req'[r].status = 200
                \/ /\ chat_sessions' = chat_sessions
                   /\ messages' = messages
                   /\ req'[r].pc = "done" /\ req'[r].status = 500]_vars

\* C12: deleteChatSession is atomic: a step in which a handler runs it on s either
\* leaves s without messages and without row and is answered 200, or changes
\* neither table and is answered with a failure.
C12_DeleteIsAtomic ==
    [][\A r \in Slots, s \in AllIds :
          (req[r].pc = "idle" /\ req'[r].kind = "delete" /\ req'[r].sid = s)
          => \/ /\ RowsOf(s)' = <<>>
                /\ ~HasRow(s)'
                /\ req'[r].pc = "done" /\ req'[r].status = 200
             \/ /\ messages' = messages
                /\ chat_sessions' = chat_sessions
                /\ req'[r].pc = "done" /\ req'[r].status = 500]_vars

\* C13: the created_at of a session row never changes while the row exists.
C13_CreatedAtIsKept ==
    [][\A s \in AllIds :
          (HasRow(s) /\ HasRow(s)') => RowOf(s)'.created_at = RowOf(s).created_at]_vars

\* the step in which the handler of slot r completes a saveMessage
AppendCompletes(r) ==
    \/ req[r].pc = "save" /\ req'[r].pc = "reread"
    \/ req[r].pc = "gateway" /\ req'[r].pc = "done" /\ req'[r].status = 200

\* C14: the updated_at of an existing session never decreases, and a completed
\* append to a session that has a row leaves its updated_at at the store's clock.
C14_UpdatedAtFollowsAppends ==
    [][/\ \A s \in AllIds :
             (HasRow(s) /\ HasRow(s)') => RowOf(s)'.updated_at >= RowOf(s).updated_at
       /\ \A r \in Slots, s \in AllIds :
             (AppendCompletes(r) /\ req[r].sid = s /\ HasRow(s)')
             => RowOf(s)'.updated_at = now]_vars

\* C14's case: a chat turn completed on a session whose row was written a second
\* earlier, and the reply's append moved updated_at to the clock.
C14_Witness ==
    \E r \in Slots :
        /\ req[r].kind = "message" /\ req[r].pc = "done" /\ req[r].status = 200
        /\ HasRow(req[r].sid)
        /\ RowOf(req[r].sid).created_at = 0
        /\ RowOf(req[r].sid).updated_at = 1
        /\ now = 1

\* C15: a session row appears only in a step of createSession that returns its id.
C15_OnlyCreateAddsSessions ==
    [][\A s \in AllIds :
          (~HasRow(s) /\ HasRow(s)')
          => \E r \in Slots :
                /\ req[r].pc = "idle" /\ req'[r].kind = "new" /\ req'[r].status = 200
                /\ req'[r].sid = s]_vars

\* C16: every stored message belongs to a session that has a row.
C16_NoMessageWithoutSession ==
    \A i \in 1..Len(messages) : HasRow(messages[i].session_id)

\* C17: a session that has a row and a non-empty history carries the title
\* derived from the oldest message of that history, and a step that finds such
\* a session leaves its title as it is.
C17_TitleOfOldestMessage ==
    [][\A s \in AllIds :
          (HasRow(s)' /\ RowsOf(s)' # <<>>)
          => /\ \E h \in getConversationHistory(s)' :
                   RowOf(s)'.title =
                       IF Len(h[1].content) <= 30 THEN h[1].content
                       ELSE SubSeq(h[1].content, 1, 30) \o <<".", ".", ".">>
             /\ (HasRow(s) /\ RowsOf(s) # <<>>) => RowOf(s)'.title = RowOf(s).title]_vars

\* C18: a request on whose behalf a store statement failed is answered with a
\* 5xx status.
C18_StorageFaultAnswered5xx ==
    \A r \in Slots :
        (req[r].cause = "storage" /\ req[r].pc \in {"done", "lost"})
        => req[r].status \in 500..599

\* C19: the list a chat turn passes to the gateway contains the user message the
\* same request appended.
C19_GatewaySeesOwnMessage ==
    \A r \in Slots :
        req[r].pc = "gateway"
        => \E i \in 1..Len(req[r].messages) :
              req[r].messages[i] = [role |-> "user", content |-> req[r].message]

IsPrefix(p, q) == Len(p) <= Len(q) /\ SubSeq(q, 1, Len(p)) = p

\* the handler of slot r takes a step (and is not merely lost with the process)
Acts(r) == req'[r] # req[r] /\ req'[r].cause # "peer"

\* C20: in every step but a deleteSession(s), the stored messages of s before the
\* step are a prefix of those after it and no added message is stamped earlier
\* than a stored one (so each ascending order of the old rows, followed by the
\* new rows, is an ascending order of the rows after the step: a history read
\* before is a prefix of one read after); and a step of a request addressed to
\* another session leaves the row and the messages of s as they are.
C20_MessagesAppendOnly ==
    [][/\ \A s \in AllIds :
             (~ \E r \in Slots : req[r].pc = "idle" /\ req'[r].kind = "delete"
                                   /\ req'[r].sid = s)
             => /\ IsPrefix(RowsOf(s), RowsOf(s)')
                /\ \A i \in 1..Len(RowsOf(s)), j \in 1..Len(RowsOf(s)') :
                      j > Len(RowsOf(s)) => RowsOf(s)[i].timestamp <= RowsOf(s)'[j].timestamp
       /\ \A r \in Slots, s \in AllIds :
             (Acts(r) /\ req[r].sid # s /\ req'[r].sid # s)
             => /\ RowsOf(s)' = RowsOf(s)
                /\ HasRow(s)' = HasRow(s)
                /\ HasRow(s) => RowOf(s)' = RowOf(s)]_vars

\* C20's case: one session has a row while a chat turn on another session has
\* completed and stored its two messages.
C20_Witness ==
    \E r \in Slots, s \in AllIds :
        /\ req[r].kind = "message" /\ req[r].pc = "done" /\ req[r].status = 200
        /\ req[r].sid # s
        /\ HasRow(s)
        /\ Len(RowsOf(req[r].sid)) = 2

====
